---- MODULE Spec2Model ----
(***************************************************************************)
(* Control-flow-graph construction of cpp_code_parser.py.                 *)
(*                                                                         *)
(* Text is modelled as a sequence of one-character strings.  Positions in  *)
(* text and in token lists are 0-based, as in the source, so that every    *)
(* index expression can be compared with the Python line it models.        *)
(***************************************************************************)
EXTENDS Integers, Sequences, FiniteSets, TLC

----------------------------------------------------------------------------
(* Characters and the string primitives the source relies on.              *)

Letters ==
    {"a", "b", "c", "d", "e", "f", "g", "h", "i", "j", "k", "l", "m",
     "n", "o", "p", "q", "r", "s", "t", "u", "v", "w", "x", "y", "z",
     "A", "B", "C", "D", "E", "F", "G", "H", "I", "J", "K", "L", "M",
     "N", "O", "P", "Q", "R", "S", "T", "U", "V", "W", "X", "Y", "Z"}

Digits == {"0", "1", "2", "3", "4", "5", "6", "7", "8", "9"}

\* str.isalnum() on one character.
isalnum(ch) == ch \in Letters \cup Digits

\* The regex class \w.
WordChar == Letters \cup Digits \cup {"_"}

\* The characters str.strip() removes and the regex class \s matches.
Space == {" ", "\n", "\t"}

Min(a, b) == IF a < b THEN a ELSE b

Max(a, b) == IF a < b THEN b ELSE a

\* s[i] with a 0-based index.
At(s, i) == s[i + 1]

\* s[i:j] with 0-based, end-exclusive, clamped indices.
Slice(s, i, j) == SubSeq(s, Max(i, 0) + 1, Min(j, Len(s)))

RECURSIVE lstrip(_)
lstrip(s) == IF s # <<>> /\ Head(s) \in Space THEN lstrip(Tail(s)) ELSE s

RECURSIVE rstrip(_)
rstrip(s) ==
    IF s # <<>> /\ s[Len(s)] \in Space
    THEN rstrip(SubSeq(s, 1, Len(s) - 1))
    ELSE s

\* str.strip()
strip(s) == rstrip(lstrip(s))

\* str.startswith(p)
startswith(s, p) == Len(s) >= Len(p) /\ SubSeq(s, 1, Len(p)) = p

\* sep.join(parts) for a list of texts.
RECURSIVE join(_, _)
join(sep, parts) ==
    IF parts = <<>> THEN <<>>
    ELSE IF Len(parts) = 1 THEN parts[1]
    ELSE parts[1] \o sep \o join(sep, Tail(parts))

\* The smallest element of a non-empty set of integers.
Least(S) == CHOOSE x \in S : \A y \in S : x <= y

\* The largest element of a non-empty set of integers.
Greatest(S) == CHOOSE x \in S : \A y \in S : y <= x

----------------------------------------------------------------------------
(* Literal texts of the source.                                            *)

kw_if == <<"i", "f">>

kw_for == <<"f", "o", "r">>

kw_while == <<"w", "h", "i", "l", "e">>

kw_while_paren == <<"w", "h", "i", "l", "e", "(">>

kw_do == <<"d", "o">>

kw_else == <<"e", "l", "s", "e">>

txt_continue == <<"c", "o", "n", "t", "i", "n", "u", "e", ";">>

txt_break == <<"b", "r", "e", "a", "k", ";">>

txt_true == <<"t", "r", "u", "e">>

txt_open == <<"{">>

txt_close == <<"}">>

txt_newline == <<"\n">>

txt_START == <<"S", "T", "A", "R", "T">>

txt_END == <<"E", "N", "D">>

txt_if_merge ==
    <<"A", "f", "t", "e", "r", " ", "I", "f", "-", "E", "l", "s", "e", " ",
      "(", "M", "e", "r", "g", "e", " ", "N", "o", "d", "e", ")">>

txt_if_entry ==
    <<"I", "f", " ", "B", "r", "a", "n", "c", "h", " ", "E", "n", "t", "r", "y">>

txt_else_entry ==
    <<"E", "l", "s", "e", " ", "B", "r", "a", "n", "c", "h", " ",
      "E", "n", "t", "r", "y">>

txt_for_merge ==
    <<"A", "f", "t", "e", "r", " ", "F", "o", "r", " ", "L", "o", "o", "p", " ",
      "(", "M", "e", "r", "g", "e", " ", "N", "o", "d", "e", ")">>

txt_for_entry ==
    <<"F", "o", "r", " ", "L", "o", "o", "p", " ", "B", "o", "d", "y", " ",
      "E", "n", "t", "r", "y">>

txt_while_merge ==
    <<"A", "f", "t", "e", "r", " ", "L", "o", "o", "p", " ",
      "(", "M", "e", "r", "g", "e", " ", "N", "o", "d", "e", ")">>

txt_while_entry ==
    <<"W", "h", "i", "l", "e", " ", "L", "o", "o", "p", " ", "B", "o", "d", "y",
      " ", "E", "n", "t", "r", "y">>

txt_do_merge ==
    <<"A", "f", "t", "e", "r", " ", "D", "o", "-", "W", "h", "i", "l", "e", " ",
      "L", "o", "o", "p", " ", "(", "M", "e", "r", "g", "e", " ",
      "N", "o", "d", "e", ")">>

\* The condition text the do-while handler falls back to.
txt_placeholder == <<"x", " ", "<", " ", "5">>

----------------------------------------------------------------------------
(* split_into_statements: the statement tokenizer.                         *)
(* A tokenizer state is [lines, current, i].                               *)

\* "i == 0 or not code_block[i-1].isalnum()"
boundary(code_block, i) == i = 0 \/ ~isalnum(At(code_block, i - 1))

\* "if current.strip(): lines.append(current.strip())"
flush_current(t) ==
    IF strip(t.current) # <<>> THEN Append(t.lines, strip(t.current)) ELSE t.lines

\* "while j < len(code_block) and code_block[j] != '(': j += 1"
RECURSIVE find_open(_, _)
find_open(code_block, j) ==
    IF j < Len(code_block) /\ At(code_block, j) # "("
    THEN find_open(code_block, j + 1)
    ELSE j

\* "while j < len(code_block) and paren_count > 0: ..."
RECURSIVE match_close(_, _, _)
match_close(code_block, j, paren_count) ==
    IF j < Len(code_block) /\ paren_count > 0
    THEN match_close(code_block, j + 1,
                     IF At(code_block, j) = "(" THEN paren_count + 1
                     ELSE IF At(code_block, j) = ")" THEN paren_count - 1
                     ELSE paren_count)
    ELSE j

\* The branch shared by the if, for and while keywords (n is the keyword's
\* length): flush, find the parenthesis, emit the header.  When no "(" follows,
\* nothing but the flush happens: i is not advanced.
header_token(code_block, t, n) ==
    LET j == find_open(code_block, t.i + n)
    IN  IF j < Len(code_block)
        THEN LET k == match_close(code_block, j + 1, 1)
             IN  [lines   |-> Append(flush_current(t),
                                     strip(Slice(code_block, t.i, k))),
                  current |-> <<>>,
                  i       |-> k]
        ELSE [lines |-> flush_current(t), current |-> t.current, i |-> t.i]

\* One iteration of the tokenizer's while loop.
split_step(code_block, t) ==
    LET i == t.i
    IN  IF Slice(code_block, i, i + 2) = kw_if /\ boundary(code_block, i)
        THEN header_token(code_block, t, 2)
        ELSE IF Slice(code_block, i, i + 3) = kw_for /\ boundary(code_block, i)
        THEN header_token(code_block, t, 3)
        ELSE IF Slice(code_block, i, i + 5) = kw_while /\ boundary(code_block, i)
        THEN header_token(code_block, t, 5)
        ELSE IF Slice(code_block, i, i + 2) = kw_do /\ boundary(code_block, i)
        THEN [lines |-> Append(flush_current(t), kw_do),
              current |-> <<>>, i |-> i + 2]
        ELSE IF Slice(code_block, i, i + 4) = kw_else /\ boundary(code_block, i)
        THEN [lines |-> Append(flush_current(t), kw_else),
              current |-> <<>>, i |-> i + 4]
        ELSE IF At(code_block, i) = "{" \/ At(code_block, i) = "}"
        THEN [lines |-> Append(flush_current(t), <<At(code_block, i)>>),
              current |-> <<>>, i |-> i + 1]
        ELSE IF At(code_block, i) = ";"
        THEN [lines |-> Append(t.lines, strip(Append(t.current, ";"))),
              current |-> <<>>, i |-> i + 1]
        ELSE [lines |-> t.lines,
              current |-> Append(t.current, At(code_block, i)),
              i |-> i + 1]

\* n iterations of the tokenizer's while loop from state t (fewer when the
\* loop's condition "i < len(code_block)" ends it before).
RECURSIVE split_iterate(_, _, _)
split_iterate(code_block, t, n) ==
    IF n = 0 \/ t.i >= Len(code_block) THEN t
    ELSE IF n = 1 THEN split_step(code_block, t)
    ELSE split_iterate(code_block,
                       split_iterate(code_block, t, n \div 2), n - n \div 2)

\* The tokenizer's loop.  An iteration that does not end the loop advances i by
\* one at least or leaves it where it is for good, so that len(code_block)
\* iterations either end the loop or show that it never ends.
split_loop(code_block, t) == split_iterate(code_block, t, Len(code_block))

split_start == [lines |-> <<>>, current |-> <<>>, i |-> 0]

\* TRUE when the tokenizer's loop does not end on code_block.
split_hangs(code_block) ==
    split_loop(code_block, split_start).i < Len(code_block)

\* The token list the tokenizer returns (when its loop ends).
split_into_statements(code_block) ==
    flush_current(split_loop(code_block, split_start))

----------------------------------------------------------------------------
(* The regular-expression searches of the source.  A search result is      *)
(* [matched, group] or [matched, init, condition, update].  "." does not   *)
(* match a newline; the searches take the leftmost start that matches.     *)

\* The index of the first character at or after j that is not in \s.
RECURSIVE skip_space(_, _)
skip_space(line, j) ==
    IF j < Len(line) /\ At(line, j) \in Space THEN skip_space(line, j + 1) ELSE j

\* TRUE when line[a:b] holds no newline.
no_newline(line, a, b) == \A k \in a .. b - 1 : At(line, k) # "\n"

\* For kw\s*\((.*)tail started at p: the positions where tail can start.
paren_ends(line, p, kw, tail) ==
    LET q == skip_space(line, p + Len(kw))
    IN  IF Slice(line, p, p + Len(kw)) = kw /\ q < Len(line) /\ At(line, q) = "("
        THEN {r \in q + 1 .. Len(line) - Len(tail) :
                 /\ Slice(line, r, r + Len(tail)) = tail
                 /\ no_newline(line, q + 1, r)}
        ELSE {}

\* re.search(kw\s*\((.*)tail, line): the group is greedy, it ends at the last
\* position where tail matches.
search_paren(line, kw, tail) ==
    LET starts == {p \in 0 .. Len(line) - 1 : paren_ends(line, p, kw, tail) # {}}
    IN  IF starts = {}
        THEN [matched |-> FALSE, group |-> <<>>]
        ELSE LET p == Least(starts)
                 q == skip_space(line, p + Len(kw))
             IN  [matched |-> TRUE,
                  group   |-> Slice(line, q + 1,
                                    Greatest(paren_ends(line, p, kw, tail)))]

\* re.search(r'if\s*\((.*)\)', line)
search_if(line) == search_paren(line, kw_if, <<")">>)

\* re.search(r'while\s*\((.*)\)', line)
search_while(line) == search_paren(line, kw_while, <<")">>)

\* re.search(r'while\s*\((.*)\);', line)
search_do_while(line) == search_paren(line, kw_while, <<")", ";">>)

\* The first index at or after j where ch stands, the end of the line when
\* there is none.
first_index(line, j, ch) ==
    LET found == {k \in j .. Len(line) - 1 : At(line, k) = ch}
    IN  IF found = {} THEN Max(j, Len(line)) ELSE Least(found)

\* for\s*\((.*?);(.*?);(.*?)\) started at p: the three lazy groups end at the
\* first ";", the next ";" and the next ")".
for_at(line, p) ==
    LET q  == skip_space(line, p + 3)
        s1 == first_index(line, q + 1, ";")
        s2 == first_index(line, s1 + 1, ";")
        s3 == first_index(line, s2 + 1, ")")
    IN  [matched   |-> /\ Slice(line, p, p + 3) = kw_for
                       /\ q < Len(line) /\ At(line, q) = "("
                       /\ s3 < Len(line)
                       /\ no_newline(line, q + 1, s3),
         init      |-> Slice(line, q + 1, s1),
         condition |-> Slice(line, s1 + 1, s2),
         update    |-> Slice(line, s2 + 1, s3)]

\* re.search(r'for\s*\((.*?);(.*?);(.*?)\)', line)
search_for(line) ==
    LET starts == {p \in 0 .. Len(line) - 1 : for_at(line, p).matched}
    IN  IF starts = {}
        THEN [matched |-> FALSE, init |-> <<>>, condition |-> <<>>, update |-> <<>>]
        ELSE for_at(line, Least(starts))

----------------------------------------------------------------------------
(* The clause extractors.                                                  *)

\* "while i < len(lines) and brace_count > 0: ..." over tokens.
RECURSIVE match_brace(_, _, _)
match_brace(lines, i, brace_count) ==
    IF i < Len(lines) /\ brace_count > 0
    THEN match_brace(lines, i + 1,
                     IF strip(At(lines, i)) = txt_open THEN brace_count + 1
                     ELSE IF strip(At(lines, i)) = txt_close THEN brace_count - 1
                     ELSE brace_count)
    ELSE i

\* The body that starts at token i: a braced block (the tokens between the
\* braces, joined by newlines) or the single token at i.  [body, i].
extract_body(lines, i) ==
    IF i < Len(lines) /\ strip(At(lines, i)) = txt_open
    THEN LET end == match_brace(lines, i + 1, 1)
         IN  [body |-> join(txt_newline, Slice(lines, i + 1, end - 1)), i |-> end]
    ELSE IF i < Len(lines)
    THEN [body |-> At(lines, i), i |-> i + 1]
    ELSE [body |-> <<>>, i |-> i]

\* extract_loop_body(lines, start_idx) -> loop_body, None, i
extract_loop_body(lines, start_idx) ==
    LET b == extract_body(lines, start_idx + 1)
    IN  [loop_body |-> b.body, i |-> b.i]

\* extract_if_else_blocks(lines, start_idx) -> if_block, else_block, i
extract_if_else_blocks(lines, start_idx) ==
    LET b == extract_body(lines, start_idx + 1)
        i == b.i
    IN  IF i < Len(lines) /\ strip(At(lines, i)) = kw_else
        THEN IF i + 1 < Len(lines) /\ startswith(strip(At(lines, i + 1)), kw_if)
             THEN [if_block |-> b.body, else_block |-> At(lines, i + 1), i |-> i + 2]
             ELSE LET e == extract_body(lines, i + 1)
                  IN  [if_block |-> b.body, else_block |-> e.body, i |-> e.i]
        ELSE [if_block |-> b.body, else_block |-> <<>>, i |-> i]

\* extract_do_while_body_and_condition(lines, start_idx)
\*   -> loop_body, condition, i
extract_do_while_body_and_condition(lines, start_idx) ==
    LET b == extract_body(lines, start_idx + 1)
        i == b.i
    IN  IF i < Len(lines) /\ startswith(strip(At(lines, i)), kw_while)
        THEN LET m == search_do_while(At(lines, i))
             IN  [loop_body |-> b.body,
                  condition |-> IF m.matched THEN strip(m.group) ELSE <<>>,
                  i         |-> i + 1]
        ELSE [loop_body |-> b.body, condition |-> <<>>, i |-> i]

----------------------------------------------------------------------------
(* ControlFlowGraph: [nodes, edges, next_id].  A node is [id, content,     *)
(* type], an edge [source, target, condition] with condition one of        *)
(* "True", "False", "None".                                                *)

\* ControlFlowGraph()
new_cfg == [nodes |-> <<>>, edges |-> <<>>, next_id |-> 0]

\* add_node with "self.next_id += 1" left out.
add_node_reuses_id(cfg, content, node_type) ==
    [nodes   |-> Append(cfg.nodes,
                        [id |-> cfg.next_id, content |-> content, type |-> node_type]),
     edges   |-> cfg.edges,
     next_id |-> cfg.next_id]

\* cfg.add_node(content, node_type); the node added has id cfg.next_id.
add_node(cfg, content, node_type) ==
    [nodes   |-> Append(cfg.nodes,
                        [id |-> cfg.next_id, content |-> content, type |-> node_type]),
     edges   |-> cfg.edges,
     next_id |-> cfg.next_id + 1]

\* add_edge with the test "edge.condition is None and condition is not None"
\* left out: an existing edge always takes the requested condition.
add_edge_overwrites(cfg, source, target, condition) ==
    LET hits == {k \in 1 .. Len(cfg.edges) :
                    cfg.edges[k].source = source /\ cfg.edges[k].target = target}
    IN  IF hits # {}
        THEN [cfg EXCEPT !.edges[Least(hits)].condition = condition]
        ELSE [cfg EXCEPT !.edges =
                 Append(@, [source |-> source, target |-> target,
                            condition |-> condition])]

\* cfg.add_edge(source_node, target_node, condition), on node ids.
add_edge(cfg, source, target, condition) ==
    LET hits == {k \in 1 .. Len(cfg.edges) :
                    cfg.edges[k].source = source /\ cfg.edges[k].target = target}
    IN  IF hits # {}
        THEN LET k == Least(hits)
             IN  IF cfg.edges[k].condition = "None" /\ condition # "None"
                 THEN [cfg EXCEPT !.edges[k].condition = condition]
                 ELSE cfg
        ELSE [cfg EXCEPT !.edges =
                 Append(@, [source |-> source, target |-> target,
                            condition |-> condition])]

----------------------------------------------------------------------------
(* parse_cpp_code: comment removal, the function signature, the body.      *)

\* re.sub(r'//.*', '', code): the leftmost "//" and the rest of its line are
\* removed, then the search goes on behind them.
RECURSIVE remove_line_comments(_)
remove_line_comments(code) ==
    LET starts == {s \in 0 .. Len(code) - 2 :
                      At(code, s) = "/" /\ At(code, s + 1) = "/"}
    IN  IF starts = {} THEN code
        ELSE LET s == Least(starts)
             IN  Slice(code, 0, s) \o
                 remove_line_comments(
                     Slice(code, first_index(code, s, "\n"), Len(code)))

\* The positions at or after j where "*/" stands.
close_comments(code, j) ==
    {e \in j .. Len(code) - 2 : At(code, e) = "*" /\ At(code, e + 1) = "/"}

\* re.sub(r'/\*.*?\*/', '', code, flags=re.DOTALL): the leftmost "/*" that has
\* a "*/" behind it is removed up to the nearest such "*/", then the search
\* goes on behind it.
RECURSIVE remove_block_comments(_)
remove_block_comments(code) ==
    LET starts == {s \in 0 .. Len(code) - 2 :
                      /\ At(code, s) = "/" /\ At(code, s + 1) = "*"
                      /\ close_comments(code, s + 2) # {}}
    IN  IF starts = {} THEN code
        ELSE LET s == Least(starts)
                 e == Least(close_comments(code, s + 2))
             IN  Slice(code, 0, s) \o
                 remove_block_comments(Slice(code, e + 2, Len(code)))

\* The end of the run of \w characters that starts at j.
RECURSIVE word_end(_, _)
word_end(code, j) ==
    IF j < Len(code) /\ At(code, j) \in WordChar THEN word_end(code, j + 1) ELSE j

\* (\w+\s+\w+\s*\([^)]*\)\s*{) matches from p on.
signature_matches(code, p) ==
    LET a == word_end(code, p)
    IN  /\ a > p
        /\ LET b == skip_space(code, a)
           IN  /\ b > a
               /\ LET c == word_end(code, b)
                  IN  /\ c > b
                      /\ LET d == skip_space(code, c)
                         IN  /\ d < Len(code)
                             /\ At(code, d) = "("
                             /\ LET e == first_index(code, d + 1, ")")
                                IN  /\ e < Len(code)
                                    /\ LET g == skip_space(code, e + 1)
                                       IN  g < Len(code) /\ At(code, g) = "{"

\* The match of (\w+\s+\w+\s*\([^)]*\)\s*{) started at p: the text matched and
\* the position behind it.
signature_at(code, p) ==
    LET a == word_end(code, p)
        b == skip_space(code, a)
        c == word_end(code, b)
        d == skip_space(code, c)
        e == first_index(code, d + 1, ")")
        g == skip_space(code, e + 1)
    IN  [matched |-> signature_matches(code, p),
         group   |-> Slice(code, p, g + 1),
         end     |-> g + 1]

\* re.search(r'(\w+\s+\w+\s*\([^)]*\)\s*{)', code)
search_function(code) ==
    LET starts == {p \in 0 .. Len(code) - 1 : signature_matches(code, p)}
    IN  IF starts = {}
        THEN [matched |-> FALSE, group |-> <<>>, end |-> 0]
        ELSE signature_at(code, Least(starts))

\* brace_count after the character at index i has been counted.
brace_count_at(body, i) ==
    1 + Cardinality({k \in 0 .. i : At(body, k) = "{"})
      - Cardinality({k \in 0 .. i : At(body, k) = "}"})

\* "for i, char in enumerate(body): ..." : the index of the first "}" that
\* brings brace_count to 0, 0 when there is none.
find_body_end(body) ==
    LET ends == {i \in 0 .. Len(body) - 1 :
                    At(body, i) = "}" /\ brace_count_at(body, i) = 0}
    IN  IF ends = {} THEN 0 ELSE Least(ends)

\* function_body of the function whose signature ends at position end.
function_body(code, end) ==
    LET body == Slice(code, end, Len(code))
    IN  strip(Slice(body, 0, find_body_end(body)))

----------------------------------------------------------------------------
(* The texts the parser is run on.                                         *)

\* The deepest nesting of the constructs of an input.
MaxDepth == 2

\* The statements a construct's innermost body is filled with.
Fill ==
    {<<>>,
     <<"a", ";">>,
     txt_break,
     txt_continue}

\* One-hole contexts <<prefix, suffix>>: a construct around a body.
Contexts ==
    {<<<<"w", "h", "i", "l", "e", " ", "(", "c", ")", " ", "{", " ">>,
       <<" ", "}">>>>,
     <<<<"w", "h", "i", "l", "e", "(", "c", ")", " ", "{", " ">>,
       <<" ", "}">>>>,
     <<<<"f", "o", "r", " ", "(", "i", ";", " ", "c", ";", " ", "u", ")", " ", "{", " ">>,
       <<" ", "}">>>>,
     <<<<"f", "o", "r", " ", "(", ";", " ", "c", ";", " ", ")", " ", "{", " ">>,
       <<" ", "}">>>>,
     <<<<"i", "f", " ", "(", "c", ")", " ", "{", " ">>,
       <<" ", "}">>>>,
     <<<<"i", "f", " ", "(", "c", ")", " ", "{", " ">>,
       <<" ", "}", " ", "e", "l", "s", "e", " ", "{", " ", "a", ";", " ", "}">>>>,
     <<<<"i", "f", " ", "(", "c", ")", " ", "{", " ", "a", ";", " ", "}", " ", "e", "l", "s", "e", " ", "{", " ">>,
       <<" ", "}">>>>,
     <<<<"i", "f", " ", "(", "c", ")", " ", "{", " ", "}", " ", "e", "l", "s", "e", " ", "{", " ">>,
       <<" ", "}">>>>,
     <<<<"d", "o", " ", "{", " ">>,
       <<" ", "}", " ", "w", "h", "i", "l", "e", " ", "(", "c", ")", ";">>>>,
     <<<<"i", "f", " ", "(", "c", ")", " ", "{", " ", "a", ";", " ", "}", " ", "e", "l", "s", "e", " ", "i", "f", " ", "(", "d", ")", " ", "{", " ">>,
       <<" ", "}", " ", "e", "l", "s", "e", " ", "{", " ", "b", ";", " ", "}">>>>,
     <<<<"a", ";", " ">>,
       <<>>>>,
     <<<<>>,
       <<" ", "a", ";">>>>,
     <<<<"w", "h", "i", "l", "e", " ", "(", "c", ")", " ">>,
       <<>>>>,
     <<<<"i", "f", " ", "(", "c", ")", " ">>,
       <<>>>>,
     <<<<"d", "o", " ">>,
       <<" ", "w", "h", "i", "l", "e", " ", "(", "c", ")", ";">>>>}

\* The function bodies of nesting depth at most d.
RECURSIVE Bodies(_)
Bodies(d) ==
    IF d = 0 THEN Fill
    ELSE Bodies(d - 1) \cup
         {c[1] \o h \o c[2] : c \in Contexts, h \in Bodies(d - 1)}

txt_signature == <<"i", "n", "t", " ", "f", "(", ")", " ", "{">>

\* A text without a function signature.
txt_no_function == <<"a", ";">>

\* A function whose body holds a line comment and a block comment.
txt_commented ==
    <<"i", "n", "t", " ", "f", "(", ")", " ", "{", " ", "a", ";", " ", "/", "/", " ", "b", ";", "\n", " ", "/", "*", " ", "c", ";", "\n", " ", "*", "/", " ", "i", "f", " ", "(", "c", ")", " ", "{", " ", "a", ";", " ", "}", " ", "}">>

Programs ==
    {txt_signature \o <<" ">> \o b \o <<" ", "}">> : b \in Bodies(MaxDepth)}
        \cup {txt_no_function, txt_commented}

----------------------------------------------------------------------------
(* The state.                                                              *)
(*   code   the text handed to parse_cpp_code                              *)
(*   cfg    the graph under construction                                   *)
(*   stack  the active invocations of process_code_block, innermost last;  *)
(*          a frame holds the invocation's locals and, in wait, the body   *)
(*          whose processing it has called and not yet got back            *)
(*   pc     the position of parse_cpp_code: "parse", "body", "returned"    *)
(*   call   the graph operation a direct client of ControlFlowGraph has     *)
(*          called last, [op, source, target, condition]; parse_cpp_code    *)
(*          has no such client and leaves it alone                          *)

VARIABLES code, cfg, stack, pc, call

vars == <<code, cfg, stack, pc, call>>

no_call == [op |-> "none", source |-> 0, target |-> 0, condition |-> "None"]

\* The locals of process_code_block at its entry (lines 153-165) when the
\* tokenizer has returned lines: an empty statement buffer and an empty loop
\* stack.
frame_of(entry_node, lines) ==
    [lines            |-> lines,
     i                |-> 0,
     current_node     |-> entry_node,
     statement_buffer |-> <<>>,
     loop_stack       |-> <<>>,
     wait             |-> "none",
     condition_node   |-> 0,
     merge_node       |-> 0,
     entry_node       |-> 0,
     else_entry_node  |-> 0,
     if_last_node     |-> 0,
     if_body          |-> <<>>,
     else_body        |-> <<>>,
     loop_body        |-> <<>>,
     init_expr        |-> <<>>,
     update_expr      |-> <<>>,
     condition        |-> <<>>,
     next_idx         |-> 0]

\* The entry of process_code_block on code_block (lines 153-165): whether the
\* tokenizer returns, and the frame of the invocation when it does.  A blank
\* block is not tokenized.
enter(entry_node, code_block) ==
    IF strip(code_block) = <<>>
    THEN [returns |-> TRUE, frame |-> frame_of(entry_node, <<>>)]
    ELSE LET t == split_loop(code_block, split_start)
         IN  [returns |-> t.i >= Len(code_block),
              frame   |-> frame_of(entry_node, flush_current(t))]

new_frame(entry_node, code_block) == enter(entry_node, code_block).frame

\* process_code_block can be entered on code_block: its tokenizer returns.
can_process(code_block) == enter(0, code_block).returns

top == stack[Len(stack)]

below == SubSeq(stack, 1, Len(stack) - 1)

caller == stack[Len(stack) - 1]

below_caller == SubSeq(stack, 1, Len(stack) - 2)

\* The innermost invocation is at a token of its list.
at_token == stack # <<>> /\ top.wait = "none" /\ top.i < Len(top.lines)

\* "line = lines[i].strip()"
line == strip(At(top.lines, top.i))

\* The innermost invocation has consumed its tokens.
at_end == stack # <<>> /\ top.wait = "none" /\ top.i >= Len(top.lines)

\* "if statement_buffer: ..." : the buffered statements become one node wired
\* from the current node.  [cfg, current_node].
flush_buffer(c, f) ==
    IF f.statement_buffer # <<>>
    THEN [cfg |-> add_edge(add_node(c, join(txt_newline, f.statement_buffer),
                                    "statement"),
                           f.current_node, c.next_id, "None"),
          current_node |-> c.next_id]
    ELSE [cfg |-> c, current_node |-> f.current_node]

\* "loop_stack.append(...)" then "loop_stack.pop()"
push(loop_stack, condition_node, merge_node) ==
    Append(loop_stack, [condition |-> condition_node, merge |-> merge_node])

pop(loop_stack) == SubSeq(loop_stack, 1, Len(loop_stack) - 1)

----------------------------------------------------------------------------
(* parse_cpp_code.                                                         *)
(* In the actions, "\E v \in {e} :" names the value of e as v, as a local  *)
(* variable of the source is assigned once and read many times.            *)

\* Lines 105-142: strip the comments, add START, find the signature, enter the
\* function body.
ParseCppCode ==
    /\ pc = "parse"
    /\ \E text \in {remove_block_comments(remove_line_comments(code))} :
       \E c0 \in {add_node(new_cfg, txt_START, "start")} :
       \E m \in {search_function(text)} :
       \E c1 \in {add_edge(add_node(c0, m.group, "statement"), 0, c0.next_id, "None")} :
       \E en \in {enter(c0.next_id, function_body(text, m.end))} :
           IF m.matched
           THEN /\ en.returns
                /\ cfg' = c1
                /\ stack' = <<en.frame>>
                /\ pc' = "body"
           ELSE /\ cfg' = c0
                /\ stack' = <<>>
                /\ pc' = "returned"
    /\ UNCHANGED <<code, call>>

\* FunctionBodyReturn with "cfg.add_edge(last_node, end_node)" left out: END is
\* added and not wired.
end_node_not_wired ==
    /\ pc = "body"
    /\ Len(stack) = 1
    /\ at_end
    /\ LET r == flush_buffer(cfg, top)
       IN  cfg' = add_node(r.cfg, txt_END, "end")
    /\ stack' = <<>>
    /\ pc' = "returned"
    /\ UNCHANGED <<code, call>>

\* Lines 430-437 and 144-148: the body's invocation returns its last node, END
\* is added behind it.
FunctionBodyReturn ==
    /\ pc = "body"
    /\ Len(stack) = 1
    /\ at_end
    /\ \E r \in {flush_buffer(cfg, top)} :
           cfg' = add_edge(add_node(r.cfg, txt_END, "end"),
                           r.current_node, r.cfg.next_id, "None")
    /\ stack' = <<>>
    /\ pc' = "returned"
    /\ UNCHANGED <<code, call>>

----------------------------------------------------------------------------
(* process_code_block: one action per kind of token.                       *)

\* Lines 175-182.
ContinueStmt ==
    /\ at_token
    /\ line = txt_continue
    /\ cfg' = IF top.loop_stack # <<>>
              THEN add_edge(cfg, top.current_node,
                            top.loop_stack[Len(top.loop_stack)].condition, "None")
              ELSE cfg
    /\ stack' = Append(below, [top EXCEPT !.i = @ + 1])
    /\ UNCHANGED <<code, pc, call>>

\* BreakStmt with the statement buffer flushed before the token is handled, as
\* the header branches do: the token would split the statements around it.
break_flushes_buffer ==
    /\ at_token
    /\ line = txt_break
    /\ LET fl == flush_buffer(cfg, top)
       IN  /\ cfg' = IF top.loop_stack # <<>>
                     THEN add_edge(fl.cfg, fl.current_node,
                                   top.loop_stack[Len(top.loop_stack)].merge, "None")
                     ELSE fl.cfg
           /\ stack' = Append(below, [top EXCEPT !.i = @ + 1,
                                                 !.current_node = fl.current_node,
                                                 !.statement_buffer = <<>>])
    /\ UNCHANGED <<code, pc, call>>

\* Lines 184-191.
BreakStmt ==
    /\ at_token
    /\ line = txt_break
    /\ cfg' = IF top.loop_stack # <<>>
              THEN add_edge(cfg, top.current_node,
                            top.loop_stack[Len(top.loop_stack)].merge, "None")
              ELSE cfg
    /\ stack' = Append(below, [top EXCEPT !.i = @ + 1])
    /\ UNCHANGED <<code, pc, call>>

is_if == line # txt_continue /\ line # txt_break /\ line # <<>>
            /\ startswith(line, kw_if)

is_for == line # txt_continue /\ line # txt_break /\ line # <<>>
            /\ ~startswith(line, kw_if) /\ startswith(line, kw_for)

\* "elif line.startswith('while') and not line.startswith('while(')"
is_while == line # txt_continue /\ line # txt_break /\ line # <<>>
            /\ ~startswith(line, kw_if) /\ ~startswith(line, kw_for)
            /\ startswith(line, kw_while) /\ ~startswith(line, kw_while_paren)

is_do == line # txt_continue /\ line # txt_break /\ line # <<>>
            /\ ~startswith(line, kw_if) /\ ~startswith(line, kw_for)
            /\ ~(startswith(line, kw_while) /\ ~startswith(line, kw_while_paren))
            /\ startswith(line, kw_do)

is_header == is_if \/ is_for \/ is_while \/ is_do

\* "elif not (line.startswith('else') or line == '{' or line == '}')"
is_normal == line # txt_continue /\ line # txt_break /\ line # <<>>
            /\ ~is_header
            /\ ~(startswith(line, kw_else) \/ line = txt_open \/ line = txt_close)

\* else_branch with the false edge of a non-empty else body drawn to the merge
\* node instead of the else entry.
else_branch_to_merge(c, f) ==
    IF f.else_body # <<>>
    THEN [cfg    |-> add_edge(add_node(c, txt_else_entry, "statement"),
                              f.condition_node, f.merge_node, "False"),
          frames |-> <<[f EXCEPT !.wait = "else_body",
                                 !.else_entry_node = c.next_id],
                       new_frame(c.next_id, f.else_body)>>]
    ELSE [cfg    |-> add_edge(c, f.condition_node, f.merge_node, "False"),
          frames |-> <<[f EXCEPT !.wait = "none",
                                 !.current_node = f.merge_node,
                                 !.i = f.next_idx]>>]

\* The false branch of an if (lines 228-242), taken by frame f once its true
\* branch is wired: enter the else body, or wire condition -> merge and go on
\* behind the if.  [cfg, frames]: the graph and the frames that replace f.
else_branch(c, f) ==
    IF f.else_body # <<>>
    THEN [cfg    |-> add_edge(add_node(c, txt_else_entry, "statement"),
                              f.condition_node, c.next_id, "False"),
          frames |-> <<[f EXCEPT !.wait = "else_body",
                                 !.else_entry_node = c.next_id],
                       new_frame(c.next_id, f.else_body)>>]
    ELSE [cfg    |-> add_edge(c, f.condition_node, f.merge_node, "False"),
          frames |-> <<[f EXCEPT !.wait = "none",
                                 !.current_node = f.merge_node,
                                 !.i = f.next_idx]>>]

\* Lines 193-244: an if header.
IfHeader ==
    /\ at_token
    /\ is_if
    /\ \E fl \in {flush_buffer(cfg, top)} :
       \E m \in {search_if(line)} :
       \E cond \in {fl.cfg.next_id} :
       \E c2 \in {add_edge(add_node(fl.cfg, strip(m.group), "condition"),
                             fl.current_node, cond, "None")} :
       \E x \in {extract_if_else_blocks(top.lines, top.i)} :
       \E merge \in {c2.next_id} :
       \E c3 \in {add_node(c2, txt_if_merge, "merge")} :
       \E f \in {[top EXCEPT !.current_node = fl.current_node,
                                !.statement_buffer = <<>>,
                                !.condition_node = cond,
                                !.merge_node = merge,
                                !.if_body = x.if_block,
                                !.else_body = x.else_block,
                                !.next_idx = x.i]} :
       \E entry \in {c3.next_id} :
       \E c5 \in {add_edge(add_node(c3, txt_if_entry, "statement"),
                             cond, entry, "True")} :
       \E e \in {else_branch(add_edge(c3, cond, merge, "True"), f)} :
       \E en \in {enter(entry, x.if_block)} :
           IF ~m.matched
           THEN /\ cfg' = fl.cfg
                /\ stack' = Append(below, [top EXCEPT
                                              !.current_node = fl.current_node,
                                              !.statement_buffer = <<>>,
                                              !.i = @ + 1])
           ELSE IF x.if_block # <<>>
           THEN /\ en.returns
                /\ cfg' = c5
                /\ stack' = below \o <<[f EXCEPT !.wait = "if_body",
                                                 !.entry_node = entry],
                                       en.frame>>
           ELSE /\ x.else_block # <<>> => can_process(x.else_block)
                /\ cfg' = e.cfg
                /\ stack' = below \o e.frames
    /\ UNCHANGED <<code, pc, call>>

\* Lines 430-437 of the if body's invocation, then lines 223-242 of its caller.
IfBodyReturn ==
    /\ at_end
    /\ Len(stack) >= 2
    /\ caller.wait = "if_body"
    /\ \E r \in {flush_buffer(cfg, top)} :
       \E e \in {else_branch(add_edge(r.cfg, r.current_node, caller.merge_node, "None"),
                            [caller EXCEPT !.if_last_node = r.current_node])} :
           /\ caller.else_body # <<>> => can_process(caller.else_body)
           /\ cfg' = e.cfg
           /\ stack' = below_caller \o e.frames
    /\ UNCHANGED <<code, pc, call>>

\* Lines 430-437 of the else body's invocation, then lines 236-242.
ElseBodyReturn ==
    /\ at_end
    /\ Len(stack) >= 2
    /\ caller.wait = "else_body"
    /\ \E r \in {flush_buffer(cfg, top)} :
           cfg' = add_edge(r.cfg, r.current_node, caller.merge_node, "None")
    /\ stack' = Append(below_caller,
                       [caller EXCEPT !.wait = "none",
                                      !.current_node = caller.merge_node,
                                      !.i = caller.next_idx])
    /\ UNCHANGED <<code, pc, call>>

\* Lines 246-320: a for header.
ForHeader ==
    /\ at_token
    /\ is_for
    /\ \E fl \in {flush_buffer(cfg, top)} :
       \E m \in {search_for(line)} :
       \E init_expr \in {strip(m.init)} :
       \E condition_expr \in {IF strip(m.condition) # <<>> THEN strip(m.condition)
                             ELSE txt_true} :
       \E update_expr \in {strip(m.update)} :
       \E c1 \in {IF init_expr # <<>>
                     THEN add_edge(add_node(fl.cfg, init_expr, "statement"),
                                   fl.current_node, fl.cfg.next_id, "None")
                     ELSE fl.cfg} :
       \E cur \in {IF init_expr # <<>> THEN fl.cfg.next_id ELSE fl.current_node} :
       \E cond \in {c1.next_id} :
       \E c2 \in {add_edge(add_node(c1, condition_expr, "loop_condition"),
                              cur, cond, "None")} :
       \E x \in {extract_loop_body(top.lines, top.i)} :
       \E merge \in {c2.next_id} :
       \E c4 \in {add_edge(add_node(c2, txt_for_merge, "merge"),
                              cond, merge, "False")} :
       \E f \in {[top EXCEPT !.current_node = cur,
                                 !.statement_buffer = <<>>,
                                 !.loop_stack = push(@, cond, merge),
                                 !.condition_node = cond,
                                 !.merge_node = merge,
                                 !.loop_body = x.loop_body,
                                 !.init_expr = init_expr,
                                 !.condition = strip(m.condition),
                                 !.update_expr = update_expr,
                                 !.next_idx = x.i]} :
       \E entry \in {c4.next_id} :
       \E c5 \in {add_edge(add_node(c4, txt_for_entry, "statement"),
                              cond, entry, "True")} :
       \E update \in {c4.next_id} :
       \E c6 \in {IF update_expr # <<>>
                     THEN add_edge(add_edge(add_node(c4, update_expr, "statement"),
                                            cond, update, "True"),
                                   update, cond, "None")
                     ELSE add_edge(c4, cond, cond, "True")} :
       \E en \in {enter(entry, x.loop_body)} :
           IF ~m.matched
           THEN /\ cfg' = fl.cfg
                /\ stack' = Append(below, [top EXCEPT
                                              !.current_node = fl.current_node,
                                              !.statement_buffer = <<>>,
                                              !.i = @ + 1])
           ELSE IF x.loop_body # <<>>
           THEN /\ en.returns
                /\ cfg' = c5
                /\ stack' = below \o <<[f EXCEPT !.wait = "for_body",
                                                 !.entry_node = entry],
                                       en.frame>>
           ELSE /\ cfg' = c6
                /\ stack' = Append(below, [f EXCEPT !.loop_stack = pop(@),
                                                    !.current_node = merge,
                                                    !.i = x.i])
    /\ UNCHANGED <<code, pc, call>>

\* for_back_edge with the body's exit wired to the condition although there is
\* an update expression: the update node is left out of the loop.
for_back_edge_skips_update(c, f, loop_last_node) ==
    IF f.update_expr # <<>>
    THEN add_edge(add_node(c, f.update_expr, "statement"),
                  loop_last_node, f.condition_node, "None")
    ELSE add_edge(c, loop_last_node, f.condition_node, "None")

\* Lines 295-303: behind a for body that ended at loop_last_node, the update
\* node and the edge back to the condition.
for_back_edge(c, f, loop_last_node) ==
    IF f.update_expr # <<>>
    THEN add_edge(add_edge(add_node(c, f.update_expr, "statement"),
                           loop_last_node, c.next_id, "None"),
                  c.next_id, f.condition_node, "None")
    ELSE add_edge(c, loop_last_node, f.condition_node, "None")

\* Lines 430-437 of the for body's invocation, then lines 295-318.
ForBodyReturn ==
    /\ at_end
    /\ Len(stack) >= 2
    /\ caller.wait = "for_body"
    /\ \E r \in {flush_buffer(cfg, top)} :
           cfg' = for_back_edge(r.cfg, caller, r.current_node)
    /\ stack' = Append(below_caller,
                       [caller EXCEPT !.wait = "none",
                                      !.loop_stack = pop(@),
                                      !.current_node = caller.merge_node,
                                      !.i = caller.next_idx])
    /\ UNCHANGED <<code, pc, call>>

\* Lines 322-373: a while header.
WhileHeader ==
    /\ at_token
    /\ is_while
    /\ \E fl \in {flush_buffer(cfg, top)} :
       \E m \in {search_while(line)} :
       \E cond \in {fl.cfg.next_id} :
       \E c2 \in {add_edge(add_node(fl.cfg, strip(m.group), "loop_condition"),
                             fl.current_node, cond, "None")} :
       \E x \in {extract_loop_body(top.lines, top.i)} :
       \E merge \in {c2.next_id} :
       \E c4 \in {add_edge(add_node(c2, txt_while_merge, "merge"),
                             cond, merge, "False")} :
       \E f \in {[top EXCEPT !.current_node = fl.current_node,
                                !.statement_buffer = <<>>,
                                !.loop_stack = push(@, cond, merge),
                                !.condition_node = cond,
                                !.merge_node = merge,
                                !.loop_body = x.loop_body,
                                !.next_idx = x.i]} :
       \E entry \in {c4.next_id} :
       \E c5 \in {add_edge(add_node(c4, txt_while_entry, "statement"),
                             cond, entry, "True")} :
       \E en \in {enter(entry, x.loop_body)} :
           IF ~m.matched
           THEN /\ cfg' = fl.cfg
                /\ stack' = Append(below, [top EXCEPT
                                              !.current_node = fl.current_node,
                                              !.statement_buffer = <<>>,
                                              !.i = @ + 1])
           ELSE IF x.loop_body # <<>>
           THEN /\ en.returns
                /\ cfg' = c5
                /\ stack' = below \o <<[f EXCEPT !.wait = "while_body",
                                                 !.entry_node = entry],
                                       en.frame>>
           ELSE /\ cfg' = add_edge(c4, cond, cond, "True")
                /\ stack' = Append(below, [f EXCEPT !.loop_stack = pop(@),
                                                    !.current_node = merge,
                                                    !.i = x.i])
    /\ UNCHANGED <<code, pc, call>>

\* Lines 430-437 of the while body's invocation, then lines 361-371.
WhileBodyReturn ==
    /\ at_end
    /\ Len(stack) >= 2
    /\ caller.wait = "while_body"
    /\ \E r \in {flush_buffer(cfg, top)} :
           cfg' = add_edge(r.cfg, r.current_node, caller.condition_node, "None")
    /\ stack' = Append(below_caller,
                       [caller EXCEPT !.wait = "none",
                                      !.loop_stack = pop(@),
                                      !.current_node = caller.merge_node,
                                      !.i = caller.next_idx])
    /\ UNCHANGED <<code, pc, call>>

\* do_while_tail with the true edge drawn as for an empty while loop, from the
\* condition node to itself, instead of back to the body entry.
do_while_tail_self_loop(c, f, loop_last_node) ==
    LET cond  == c.next_id
        c2    == add_edge(add_node(c, IF f.condition # <<>> THEN f.condition
                                      ELSE txt_placeholder,
                                   "loop_condition"),
                          loop_last_node, cond, "None")
        merge == c2.next_id
        c3    == add_node(c2, txt_do_merge, "merge")
        c5    == add_edge(add_edge(c3, cond, cond, "True"),
                          cond, merge, "False")
    IN  [cfg   |-> c5,
         frame |-> [f EXCEPT !.wait = "none",
                             !.loop_stack = pop(push(@, cond, merge)),
                             !.condition_node = cond,
                             !.merge_node = merge,
                             !.current_node = merge,
                             !.i = f.next_idx]]

\* Lines 398-419: the condition and merge nodes of a do-while whose body ended
\* at loop_last_node.  [cfg, frame].
do_while_tail(c, f, loop_last_node) ==
    LET cond  == c.next_id
        c2    == add_edge(add_node(c, IF f.condition # <<>> THEN f.condition
                                      ELSE txt_placeholder,
                                   "loop_condition"),
                          loop_last_node, cond, "None")
        merge == c2.next_id
        c3    == add_node(c2, txt_do_merge, "merge")
        c5    == add_edge(add_edge(c3, cond, f.entry_node, "True"),
                          cond, merge, "False")
    IN  [cfg   |-> c5,
         frame |-> [f EXCEPT !.wait = "none",
                             !.loop_stack = pop(push(@, cond, merge)),
                             !.condition_node = cond,
                             !.merge_node = merge,
                             !.current_node = merge,
                             !.i = f.next_idx]]

\* DoToken written after the while branch: the condition and merge nodes are
\* made, and the loop context pushed, before the body is processed, and the
\* body is processed with that context.
DoToken_shares_context ==
    /\ at_token
    /\ is_do
    /\ LET fl    == flush_buffer(cfg, top)
           x     == extract_do_while_body_and_condition(top.lines, top.i)
           entry == fl.cfg.next_id
           c2    == add_edge(add_node(fl.cfg, kw_do, "statement"),
                             fl.current_node, entry, "None")
           f     == [top EXCEPT !.current_node = fl.current_node,
                                !.statement_buffer = <<>>,
                                !.entry_node = entry,
                                !.loop_body = x.loop_body,
                                !.condition = x.condition,
                                !.next_idx = x.i]
           t     == do_while_tail(c2, f, entry)
           cond  == c2.next_id
           c4    == add_node(add_node(c2, IF x.condition # <<>> THEN x.condition
                                          ELSE txt_placeholder,
                                       "loop_condition"),
                             txt_do_merge, "merge")
       IN  IF x.loop_body # <<>>
           THEN /\ can_process(x.loop_body)
                /\ cfg' = c4
                /\ stack' = below \o
                       <<[f EXCEPT !.wait = "do_body"],
                         [new_frame(entry, x.loop_body) EXCEPT
                              !.loop_stack = push(<<>>, cond, cond + 1)]>>
           ELSE /\ cfg' = t.cfg
                /\ stack' = Append(below, t.frame)
    /\ UNCHANGED <<code, pc, call>>

\* Lines 375-419: a do token.
DoToken ==
    /\ at_token
    /\ is_do
    /\ \E fl \in {flush_buffer(cfg, top)} :
       \E x \in {extract_do_while_body_and_condition(top.lines, top.i)} :
       \E entry \in {fl.cfg.next_id} :
       \E c2 \in {add_edge(add_node(fl.cfg, kw_do, "statement"),
                             fl.current_node, entry, "None")} :
       \E f \in {[top EXCEPT !.current_node = fl.current_node,
                                !.statement_buffer = <<>>,
                                !.entry_node = entry,
                                !.loop_body = x.loop_body,
                                !.condition = x.condition,
                                !.next_idx = x.i]} :
       \E t \in {do_while_tail(c2, f, entry)} :
       \E en \in {enter(entry, x.loop_body)} :
           IF x.loop_body # <<>>
           THEN /\ en.returns
                /\ cfg' = c2
                /\ stack' = below \o <<[f EXCEPT !.wait = "do_body"],
                                       en.frame>>
           ELSE /\ cfg' = t.cfg
                /\ stack' = Append(below, t.frame)
    /\ UNCHANGED <<code, pc, call>>

\* Lines 430-437 of the do body's invocation, then lines 398-419.
DoBodyReturn ==
    /\ at_end
    /\ Len(stack) >= 2
    /\ caller.wait = "do_body"
    /\ \E r \in {flush_buffer(cfg, top)} :
       \E t \in {do_while_tail(r.cfg, caller, r.current_node)} :
           /\ cfg' = t.cfg
           /\ stack' = Append(below_caller, t.frame)
    /\ UNCHANGED <<code, pc, call>>

\* Lines 421-425: a plain statement joins the statement buffer.
NormalStatement ==
    /\ at_token
    /\ is_normal
    /\ stack' = Append(below, [top EXCEPT !.statement_buffer = Append(@, line),
                                          !.i = @ + 1])
    /\ UNCHANGED <<code, cfg, pc, call>>

\* Lines 170-173 and 426-428: blank tokens, braces and else are skipped.
SkipToken ==
    /\ at_token
    /\ \/ line = <<>>
       \/ /\ line # txt_continue /\ line # txt_break
          /\ ~is_header
          /\ (startswith(line, kw_else) \/ line = txt_open \/ line = txt_close)
    /\ stack' = Append(below, [top EXCEPT !.i = @ + 1])
    /\ UNCHANGED <<code, cfg, pc, call>>

----------------------------------------------------------------------------
(* The specification: parse_cpp_code run on one of the texts.              *)

Init ==
    /\ code \in Programs
    /\ cfg = new_cfg
    /\ stack = <<>>
    /\ pc = "parse"
    /\ call = no_call

Next ==
    \/ ParseCppCode
    \/ FunctionBodyReturn
    \/ ContinueStmt
    \/ BreakStmt
    \/ IfHeader
    \/ IfBodyReturn
    \/ ElseBodyReturn
    \/ ForHeader
    \/ ForBodyReturn
    \/ WhileHeader
    \/ WhileBodyReturn
    \/ DoToken
    \/ DoBodyReturn
    \/ NormalStatement
    \/ SkipToken

Spec == Init /\ [][Next]_vars

----------------------------------------------------------------------------
(* The graph model on its own: a client that calls add_node and add_edge   *)
(* on nodes of the graph, in any order.                                    *)

\* The most nodes and edges the client's graph gets.
MaxGraphNodes == 2

MaxGraphEdges == 2

Conditions == {"True", "False", "None"}

InitGraph ==
    /\ code = <<>>
    /\ cfg = new_cfg
    /\ stack = <<>>
    /\ pc = "graph"
    /\ call = no_call

AddNode ==
    /\ pc = "graph"
    /\ Len(cfg.nodes) < MaxGraphNodes
    /\ cfg' = add_node(cfg, <<"a", ";">>, "statement")
    /\ call' = [op |-> "add_node", source |-> 0, target |-> 0, condition |-> "None"]
    /\ UNCHANGED <<code, stack, pc>>

has_pair(c, source, target) ==
    \E k \in 1 .. Len(c.edges) :
        c.edges[k].source = source /\ c.edges[k].target = target

AddEdge ==
    /\ pc = "graph"
    /\ \E source \in 0 .. cfg.next_id - 1, target \in 0 .. cfg.next_id - 1,
          condition \in Conditions :
           /\ Len(cfg.edges) < MaxGraphEdges \/ has_pair(cfg, source, target)
           /\ cfg' = add_edge(cfg, source, target, condition)
           /\ call' = [op |-> "add_edge", source |-> source, target |-> target,
                       condition |-> condition]
    /\ UNCHANGED <<code, stack, pc>>

NextGraph == AddNode \/ AddEdge

SpecGraph == InitGraph /\ [][NextGraph]_vars

----------------------------------------------------------------------------
(* Vocabulary of the properties.                                           *)

\* The node of graph c with id n.
node(c, n) == c.nodes[n + 1]

is_node(c, n) == n \in 0 .. Len(c.nodes) - 1

has_edge(c, source, target, condition) ==
    \E k \in 1 .. Len(c.edges) :
        c.edges[k] = [source |-> source, target |-> target, condition |-> condition]

\* The targets of the edges that leave n with the given condition.
out_targets(c, n, condition) ==
    {c.edges[k].target : k \in {j \in 1 .. Len(c.edges) :
        c.edges[j].source = n /\ c.edges[j].condition = condition}}

out_count(c, n, condition) ==
    Cardinality({k \in 1 .. Len(c.edges) :
        c.edges[k].source = n /\ c.edges[k].condition = condition})

\* The sources of the edges that enter n.
in_sources(c, n) ==
    {c.edges[k].source : k \in {j \in 1 .. Len(c.edges) : c.edges[j].target = n}}

in_count(c, n) ==
    Cardinality({k \in 1 .. Len(c.edges) : c.edges[k].target = n})

no_duplicate_edge(c) ==
    \A j, k \in 1 .. Len(c.edges) :
        (c.edges[j].source = c.edges[k].source
            /\ c.edges[j].target = c.edges[k].target) => j = k

\* The frame the step leaves on top of the stack.
top_after == stack'[Len(stack')]

\* The frame, below depth d or at it, that waits for the body of the innermost
\* for or while loop around the block of depth d + 1, looking through the
\* frames that wait for an if or else body; 0 when there is none.
RECURSIVE enclosing_loop(_, _)
enclosing_loop(st, d) ==
    IF d = 0 THEN 0
    ELSE IF st[d].wait \in {"for_body", "while_body"} THEN d
    ELSE IF st[d].wait \in {"if_body", "else_body"} THEN enclosing_loop(st, d - 1)
    ELSE 0

----------------------------------------------------------------------------
\* C1: when a continue; token is processed in the body of a for or while loop
\* (directly, or nested in an if inside that body), the step adds an edge with
\* condition none from the current node to the condition node of the innermost
\* enclosing loop; a break; token so placed adds one to that loop's merge node.
C1_LoopExitEdges ==
    [][(/\ at_token
        /\ line \in {txt_continue, txt_break}
        /\ enclosing_loop(stack, Len(stack) - 1) # 0)
       => LET loop == stack[enclosing_loop(stack, Len(stack) - 1)]
          IN  has_edge(cfg', top.current_node,
                       IF line = txt_continue THEN loop.condition_node
                       ELSE loop.merge_node,
                       "None")]_vars

----------------------------------------------------------------------------
\* What add_edge is to do with request r on graph c, giving graph d.
edge_rule(c, d, r) ==
    IF has_pair(c, r.source, r.target)
    THEN LET k == CHOOSE j \in 1 .. Len(c.edges) :
                      c.edges[j].source = r.source /\ c.edges[j].target = r.target
         IN  /\ Len(d.edges) = Len(c.edges)
             /\ \A j \in 1 .. Len(c.edges) : j # k => d.edges[j] = c.edges[j]
             /\ d.edges[k].source = r.source
             /\ d.edges[k].target = r.target
             /\ d.edges[k].condition =
                    IF c.edges[k].condition = "None"
                           /\ r.condition \in {"True", "False"}
                    THEN r.condition
                    ELSE c.edges[k].condition
    ELSE Len(d.edges) = Len(c.edges) + 1

----------------------------------------------------------------------------
ids_in_order(c) ==
    /\ c.next_id = Len(c.nodes)
    /\ \A k \in 1 .. Len(c.nodes) : c.nodes[k].id = k - 1

\* C3: at every point of construction the k-th created node has id k (ids are
\* unique and strictly increasing from 0), and no step removes a node or
\* changes one that exists.
C3_NodeIds ==
    [][/\ ids_in_order(cfg')
       /\ Len(cfg'.nodes) >= Len(cfg.nodes)
       /\ SubSeq(cfg'.nodes, 1, Len(cfg.nodes)) = cfg.nodes]_vars

\* C3's case: a graph under construction that holds several nodes.
C3_Witness ==
    /\ pc = "body"
    /\ Len(cfg.nodes) >= 6
    /\ ids_in_order(cfg)

----------------------------------------------------------------------------
\* No condition node has two true-edges or two false-edges, no if's merge node
\* more than two incoming edges.
if_degrees(c) ==
    \A n \in 0 .. Len(c.nodes) - 1 :
        /\ node(c, n).type = "condition"
               => out_count(c, n, "True") <= 1 /\ out_count(c, n, "False") <= 1
        /\ (node(c, n).type = "merge" /\ node(c, n).content = txt_if_merge)
               => in_count(c, n) <= 2

\* The step that ends the processing of an if whose two bodies are non-empty:
\* the else body's invocation returns.
if_else_returns ==
    /\ at_end
    /\ Len(stack) >= 2
    /\ caller.wait = "else_body"
    /\ caller.if_body # <<>>
    /\ caller.else_body # <<>>

\* C4: for an if header whose if-body and else-body are both non-empty, the
\* condition node has exactly one outgoing true-edge, to the if-branch entry,
\* and exactly one outgoing false-edge, to the else-branch entry, and the exits
\* of the two branches lead into the one merge node, which has exactly two
\* incoming edges (and never gets a third).
C4_IfElseShape ==
    /\ [](if_degrees(cfg))
    /\ [][if_else_returns
          => LET f         == caller
                 else_last == flush_buffer(cfg, top).current_node
             IN  /\ out_count(cfg', f.condition_node, "True") = 1
                 /\ out_targets(cfg', f.condition_node, "True") = {f.entry_node}
                 /\ node(cfg', f.entry_node).content = txt_if_entry
                 /\ out_count(cfg', f.condition_node, "False") = 1
                 /\ out_targets(cfg', f.condition_node, "False")
                        = {f.else_entry_node}
                 /\ node(cfg', f.else_entry_node).content = txt_else_entry
                 /\ out_count(cfg', f.condition_node, "None") = 0
                 /\ f.if_last_node # else_last
                 /\ in_sources(cfg', f.merge_node) = {f.if_last_node, else_last}
                 /\ in_count(cfg', f.merge_node) = 2
                 /\ top_after.current_node = f.merge_node]_vars

\* C4's case: an if with two non-empty bodies has just been processed.
C4_Witness ==
    /\ stack # <<>>
    /\ top.wait = "none"
    /\ top.if_body # <<>>
    /\ top.else_body # <<>>
    /\ top.current_node = top.merge_node
    /\ top.i = top.next_idx
    /\ node(cfg, top.condition_node).type = "condition"
    /\ has_edge(cfg, top.condition_node, top.entry_node, "True")
    /\ has_edge(cfg, top.condition_node, top.else_entry_node, "False")
    /\ in_count(cfg, top.merge_node) = 2

----------------------------------------------------------------------------
\* A step that ends the processing of an if header: at the header when both
\* bodies are empty, else at the return of the last non-empty body.
if_completes ==
    \/ /\ at_token
       /\ is_if
       /\ search_if(line).matched
       /\ extract_if_else_blocks(top.lines, top.i).if_block = <<>>
       /\ extract_if_else_blocks(top.lines, top.i).else_block = <<>>
    \/ /\ at_end
       /\ Len(stack) >= 2
       /\ \/ caller.wait = "if_body" /\ caller.else_body = <<>>
          \/ caller.wait = "else_body"

\* C5: whatever bodies of an if are empty, once the if is processed its
\* condition node has an outgoing edge labelled true and one labelled false;
\* without an else-body there is an edge condition -> merge labelled false, with
\* an empty if-body an edge condition -> merge labelled true.
C5_BothLabels ==
    [][if_completes
       => LET f == top_after
          IN  /\ out_count(cfg', f.condition_node, "True") >= 1
              /\ out_count(cfg', f.condition_node, "False") >= 1
              /\ f.else_body = <<>>
                     => has_edge(cfg', f.condition_node, f.merge_node, "False")
              /\ f.if_body = <<>>
                     => has_edge(cfg', f.condition_node, f.merge_node, "True")]_vars

----------------------------------------------------------------------------
\* The innermost invocation is at the if header of an else-if: it was entered
\* on the else body of its caller, and that else body is the header token that
\* follows the caller's else token.
else_if_reentry ==
    /\ at_token
    /\ is_if
    /\ search_if(line).matched
    /\ top.i = 0
    /\ Len(stack) >= 2
    /\ caller.wait = "else_body"
    /\ caller.next_idx >= 2
    /\ strip(At(caller.lines, caller.next_idx - 2)) = kw_else
    /\ At(caller.lines, caller.next_idx - 1) = caller.else_body
    /\ startswith(strip(caller.else_body), kw_if)

\* C6: in if (a) {A} else if (b) {B} else {C} the if-processing re-entered for
\* the else-if takes B and C, the clauses that follow its header, as its true
\* and false branch: with B non-empty the condition node for b gets a true-edge
\* to a new if-branch entry.
C6_ElseIfBranches ==
    [][else_if_reentry
       => LET behind == extract_if_else_blocks(caller.lines, caller.next_idx - 1)
              cond   == cfg.next_id
              f      == stack'[Len(stack)]
          IN  /\ f.if_body = behind.if_block
              /\ f.else_body = behind.else_block
              /\ behind.if_block # <<>>
                     => \E e \in out_targets(cfg', cond, "True") :
                            node(cfg', e).content = txt_if_entry]_vars

----------------------------------------------------------------------------
\* A step that ends the processing of a do-while: at the do token when the body
\* is empty, else at the return of the body's invocation.
do_completes ==
    \/ /\ at_token
       /\ is_do
       /\ extract_do_while_body_and_condition(top.lines, top.i).loop_body = <<>>
    \/ /\ at_end
       /\ Len(stack) >= 2
       /\ caller.wait = "do_body"

\* The frame that holds the do token, and the index of the token behind the
\* do-while's body.
do_frame == IF at_token THEN top ELSE caller

do_trailing == extract_body(do_frame.lines, do_frame.i + 1).i

\* C7: for do body while (c); the content of the loop_condition node is the
\* condition text c of the trailing while token; the placeholder text is used
\* only when that token is missing or holds no parenthesized condition.
C7_DoWhileCondition ==
    [][(/\ do_completes
        /\ do_trailing < Len(do_frame.lines)
        /\ startswith(strip(At(do_frame.lines, do_trailing)), kw_while)
        /\ search_while(At(do_frame.lines, do_trailing)).matched)
       => node(cfg', top_after.condition_node).content
              = strip(search_while(At(do_frame.lines, do_trailing)).group)]_vars

----------------------------------------------------------------------------
\* The current token is a while header with a parenthesized condition.  (The
\* trailing while of a do-while is consumed with its do and never becomes the
\* current token of the block that holds the do.)
at_while_header ==
    /\ at_token
    /\ startswith(line, kw_while)
    /\ search_while(line).matched

\* C8: every while header token, with or without whitespace between while and
\* "(", is processed as a loop: a loop_condition node is created with an edge
\* from the current node, a false-edge goes from it to a new merge node, and
\* the current node behind the loop is that merge node.
C8_WhileIsLoop ==
    [][/\ at_while_header
          => LET fl   == flush_buffer(cfg, top)
                 cond == fl.cfg.next_id
             IN  /\ Len(cfg'.nodes) >= cond + 2
                 /\ node(cfg', cond).type = "loop_condition"
                 /\ has_edge(cfg', fl.current_node, cond, "None")
                 /\ node(cfg', cond + 1).type = "merge"
                 /\ has_edge(cfg', cond, cond + 1, "False")
                 /\ extract_loop_body(top.lines, top.i).loop_body = <<>>
                        => top_after.current_node = cond + 1
       /\ (at_end /\ Len(stack) >= 2 /\ caller.wait = "while_body")
          => top_after.current_node = caller.merge_node]_vars

----------------------------------------------------------------------------
\* No loop_condition node has two true-edges or two false-edges.
loop_degrees(c) ==
    \A n \in 0 .. Len(c.nodes) - 1 :
        node(c, n).type = "loop_condition"
            => out_count(c, n, "True") <= 1 /\ out_count(c, n, "False") <= 1

\* The current token is a for header whose init, condition, update and body
\* are all non-empty.
at_full_for ==
    /\ at_token
    /\ is_for
    /\ search_for(line).matched
    /\ strip(search_for(line).init) # <<>>
    /\ strip(search_for(line).condition) # <<>>
    /\ strip(search_for(line).update) # <<>>
    /\ extract_loop_body(top.lines, top.i).loop_body # <<>>

\* The body of such a for loop returns.
full_for_returns ==
    /\ at_end
    /\ Len(stack) >= 2
    /\ caller.wait = "for_body"
    /\ caller.init_expr # <<>>
    /\ caller.condition # <<>>
    /\ caller.update_expr # <<>>

\* C9: for a for header whose init, condition, update and body are non-empty,
\* the graph gets an init node wired from the predecessor, a loop_condition
\* node with exactly one false-edge (to the merge node) and exactly one
\* true-edge (to the body entry), an update node with an edge from the body's
\* exit, and a back-edge from the update node to the condition node; the
\* current node behind the loop is the merge node.
C9_ForShape ==
    /\ [](loop_degrees(cfg))
    /\ [][/\ at_full_for
             => LET fl    == flush_buffer(cfg, top)
                    init  == fl.cfg.next_id
                    cond  == init + 1
                    merge == init + 2
                    entry == init + 3
                IN  /\ Len(cfg'.nodes) = init + 4
                    /\ node(cfg', init).type = "statement"
                    /\ node(cfg', init).content = strip(search_for(line).init)
                    /\ has_edge(cfg', fl.current_node, init, "None")
                    /\ node(cfg', cond).type = "loop_condition"
                    /\ node(cfg', cond).content = strip(search_for(line).condition)
                    /\ has_edge(cfg', init, cond, "None")
                    /\ node(cfg', merge).type = "merge"
                    /\ node(cfg', entry).content = txt_for_entry
                    /\ out_targets(cfg', cond, "False") = {merge}
                    /\ out_targets(cfg', cond, "True") = {entry}
                    /\ out_count(cfg', cond, "False") = 1
                    /\ out_count(cfg', cond, "True") = 1
          /\ full_for_returns
             => LET f      == caller
                    r      == flush_buffer(cfg, top)
                    update == r.cfg.next_id
                IN  /\ Len(cfg'.nodes) = update + 1
                    /\ node(cfg', update).content = f.update_expr
                    /\ has_edge(cfg', r.current_node, update, "None")
                    /\ has_edge(cfg', update, f.condition_node, "None")
                    /\ out_targets(cfg', f.condition_node, "False") = {f.merge_node}
                    /\ out_targets(cfg', f.condition_node, "True") = {f.entry_node}
                    /\ out_count(cfg', f.condition_node, "False") = 1
                    /\ out_count(cfg', f.condition_node, "True") = 1
                    /\ top_after.current_node = f.merge_node]_vars

\* C9's case: a for loop with init, condition, update and body has just been
\* processed, its update node leads back to its condition node.
C9_Witness ==
    /\ stack # <<>>
    /\ top.wait = "none"
    /\ top.init_expr # <<>>
    /\ top.condition # <<>>
    /\ top.update_expr # <<>>
    /\ top.loop_body # <<>>
    /\ top.current_node = top.merge_node
    /\ node(cfg, top.condition_node).type = "loop_condition"
    /\ node(cfg, top.entry_node).content = txt_for_entry
    /\ \E n \in in_sources(cfg, top.condition_node) :
           /\ node(cfg, n).content = top.update_expr
           /\ has_edge(cfg, n, top.condition_node, "None")
           /\ in_sources(cfg, n) # {}

----------------------------------------------------------------------------
\* C10: a while loop, or a for loop with an empty update clause, whose braced
\* body is empty yields a true-labelled self-loop on its loop_condition node
\* and a false-labelled edge from that node to the merge node, and creates no
\* body-entry node.
C10_EmptyBodyLoop ==
    [][(/\ at_token
        /\ Len(top.lines) > top.i + 2
        /\ strip(At(top.lines, top.i + 1)) = txt_open
        /\ strip(At(top.lines, top.i + 2)) = txt_close
        /\ \/ at_while_header
           \/ /\ is_for
              /\ search_for(line).matched
              /\ strip(search_for(line).update) = <<>>)
       => LET fl   == flush_buffer(cfg, top)
              cond == IF is_for /\ strip(search_for(line).init) # <<>>
                      THEN fl.cfg.next_id + 1
                      ELSE fl.cfg.next_id
          IN  /\ Len(cfg'.nodes) = cond + 2
              /\ node(cfg', cond).type = "loop_condition"
              /\ node(cfg', cond + 1).type = "merge"
              /\ has_edge(cfg', cond, cond, "True")
              /\ has_edge(cfg', cond, cond + 1, "False")]_vars

----------------------------------------------------------------------------
\* The exit node of the do-while body at the step that ends the do-while: the
\* entry node when the body is empty, else the node the body's invocation
\* returns.
do_exit ==
    IF at_token THEN flush_buffer(cfg, top).cfg.next_id
    ELSE flush_buffer(cfg, top).current_node

\* The node the do-while is attached to, at the step that ends the do-while.
do_predecessor ==
    IF at_token THEN flush_buffer(cfg, top).current_node
    ELSE caller.current_node

\* C11: for a do-while, the body-entry node gets an edge with condition none
\* from the predecessor node; the loop_condition node is created after every
\* node of the body and gets an edge from the body's exit node; the condition
\* node has a true-edge back to the body-entry node and a false-edge to the
\* merge node.
C11_DoWhileShape ==
    [][/\ (at_token /\ is_do)
          => LET fl    == flush_buffer(cfg, top)
                 entry == fl.cfg.next_id
             IN  /\ Len(cfg'.nodes) > entry
                 /\ node(cfg', entry).content = kw_do
                 /\ has_edge(cfg', fl.current_node, entry, "None")
                 /\ in_count(cfg', entry)
                        = IF extract_do_while_body_and_condition(
                                 top.lines, top.i).loop_body = <<>>
                          THEN 2 ELSE 1
       /\ do_completes
          => LET f    == top_after
                 cond == f.condition_node
             IN  /\ node(cfg', f.entry_node).content = kw_do
                 /\ has_edge(cfg', do_predecessor, f.entry_node, "None")
                 /\ out_count(cfg', f.entry_node, "True") = 0
                 /\ out_count(cfg', f.entry_node, "False") = 0
                 /\ cond >= flush_buffer(cfg, top).cfg.next_id
                 /\ cond > f.entry_node
                 /\ do_exit < cond
                 /\ node(cfg', cond).type = "loop_condition"
                 /\ has_edge(cfg', do_exit, cond, "None")
                 /\ has_edge(cfg', cond, f.entry_node, "True")
                 /\ out_count(cfg', cond, "True") = 1
                 /\ f.merge_node = cond + 1
                 /\ Len(cfg'.nodes) = cond + 2
                 /\ node(cfg', f.merge_node).type = "merge"
                 /\ has_edge(cfg', cond, f.merge_node, "False")
                 /\ out_count(cfg', cond, "False") = 1
                 /\ f.current_node = f.merge_node]_vars

\* C11's case: a do-while with a non-empty body has just been processed; the
\* body's nodes lie between its entry node and its condition node.
C11_Witness ==
    /\ stack # <<>>
    /\ top.wait = "none"
    /\ top.loop_body # <<>>
    /\ top.current_node = top.merge_node
    /\ top.i = top.next_idx
    /\ node(cfg, top.merge_node).content = txt_do_merge
    /\ node(cfg, top.entry_node).content = kw_do
    /\ top.condition_node > top.entry_node + 1
    /\ has_edge(cfg, top.condition_node, top.entry_node, "True")
    /\ has_edge(cfg, top.condition_node, top.merge_node, "False")
    /\ in_sources(cfg, top.entry_node) # {top.condition_node}

----------------------------------------------------------------------------
\* The current token is break; or continue;.
at_loop_exit_token == at_token /\ line \in {txt_break, txt_continue}

\* C12: processing a break; or continue; token creates no node and leaves the
\* current node as it is; nothing of the invocation changes but its position,
\* so that the statements behind the token are buffered and attached exactly as
\* they would be without it.
C12_LoopExitFrame ==
    [][at_loop_exit_token
       => /\ cfg'.nodes = cfg.nodes
          /\ cfg'.next_id = cfg.next_id
          /\ SubSeq(cfg'.edges, 1, Len(cfg.edges)) = cfg.edges
          /\ Len(stack') = Len(stack)
          /\ top_after.current_node = top.current_node
          /\ top_after.statement_buffer = top.statement_buffer
          /\ top_after = [top EXCEPT !.i = top.i + 1]
          /\ SubSeq(stack', 1, Len(stack) - 1) = below]_vars

\* C12's case: a break; or continue; token has just been processed between two
\* statements of a block: one is buffered, the other follows.
C12_Witness ==
    /\ stack # <<>>
    /\ top.wait = "none"
    /\ top.i >= 1
    /\ top.i < Len(top.lines)
    /\ strip(At(top.lines, top.i - 1)) \in {txt_break, txt_continue}
    /\ top.statement_buffer # <<>>
    /\ is_normal

----------------------------------------------------------------------------
\* The frames that wait for the body of a do-while around the innermost
\* invocation.
do_frames == {d \in 1 .. Len(stack) - 1 : stack[d].wait = "do_body"}

\* The condition and merge nodes of the for and while loops entered inside the
\* body that frame d waits for, around the innermost invocation.
inner_loop_nodes(d) ==
    UNION {{stack[k].condition_node, stack[k].merge_node} :
              k \in {j \in d + 1 .. Len(stack) - 1 :
                        stack[j].wait \in {"for_body", "while_body"}}}

\* The targets of the edges the step appends.
new_targets ==
    {cfg'.edges[k].target : k \in Len(cfg.edges) + 1 .. Len(cfg'.edges)}

\* C13: a break; or continue; token inside the body of a do-while produces no
\* edge whose target is that do-while's loop_condition or merge node, however
\* the do-while is nested.  When the token is processed those two nodes are not
\* created yet: an edge the token adds leads to a node that exists, and not to
\* a loop node made since the do-while's entry other than those of the loops
\* entered inside its body; the do-while's condition and merge nodes are new
\* when the do-while is completed, and the only edges into them are the one
\* from the body's exit and the false edge from the condition.
C13_DoBodyLoopExit ==
    [][/\ (at_loop_exit_token /\ do_frames # {})
          => \A t \in new_targets :
                 /\ t < Len(cfg.nodes)
                 /\ \A d \in do_frames :
                        \/ t <= stack[d].entry_node
                        \/ t \in inner_loop_nodes(d)
                        \/ node(cfg, t).type \notin {"loop_condition", "merge"}
       /\ do_completes
          => /\ top_after.condition_node >= Len(cfg.nodes)
             /\ top_after.merge_node >= Len(cfg.nodes)
             /\ in_sources(cfg', top_after.condition_node) = {do_exit}
             /\ in_sources(cfg', top_after.merge_node)
                    = {top_after.condition_node}]_vars

\* C13's case: a break; or continue; token has just been processed in the body
\* of a do-while that lies in the body of a for or while loop.
C13_Witness ==
    /\ stack # <<>>
    /\ top.wait = "none"
    /\ top.i >= 1
    /\ strip(At(top.lines, top.i - 1)) \in {txt_break, txt_continue}
    /\ \E d \in do_frames :
           /\ d = Len(stack) - 1
           /\ d >= 2
           /\ stack[d - 1].wait \in {"for_body", "while_body"}

----------------------------------------------------------------------------
(* The tokenizer on its own: split_into_statements run on one code block,  *)
(* one step per test of its loop condition and per iteration of its loop.  *)
(* code is the code block, stack holds the one frame [lines, current, i]    *)
(* of the invocation, pc is "split_test" before the loop condition is       *)
(* tested, "split_body" inside the loop and "split_returned" once the       *)
(* token list (the frame's lines) is returned.                              *)

\* The longest code block, in pieces.
MaxPieces == 4

\* The longest token list the model follows: an iteration that neither ends
\* nor advances the loop can append to lines for ever.
MaxTokens == 6

\* The pieces the code blocks are made of: the keywords, a letter, a blank and
\* the punctuation the tokenizer reads.
Pieces ==
    {kw_if, kw_for, kw_while, kw_do, kw_else,
     <<"x">>, <<" ">>, <<"(">>, <<")">>, <<";">>, <<"{">>}

\* The code blocks of at most n pieces.
RECURSIVE Blocks(_)
Blocks(n) ==
    IF n = 0 THEN {<<>>}
    ELSE Blocks(n - 1) \cup {b \o p : b \in Blocks(n - 1), p \in Pieces}

InitSplit ==
    /\ code \in Blocks(MaxPieces)
    /\ cfg = new_cfg
    /\ stack = <<split_start>>
    /\ pc = "split_test"
    /\ call = no_call

\* "while i < len(code_block):" holds, the loop body is entered.
SplitEnter ==
    /\ pc = "split_test"
    /\ top.i < Len(code)
    /\ pc' = "split_body"
    /\ UNCHANGED <<code, cfg, stack, call>>

\* One iteration of the loop body (lines 448-568).
SplitBody ==
    /\ pc = "split_body"
    /\ Len(top.lines) < MaxTokens
    /\ stack' = <<split_step(code, top)>>
    /\ pc' = "split_test"
    /\ UNCHANGED <<code, cfg, call>>

\* The loop condition fails: the last flush, and the return of lines (lines
\* 570-573).
SplitReturn ==
    /\ pc = "split_test"
    /\ top.i >= Len(code)
    /\ stack' = <<[top EXCEPT !.lines = flush_current(top), !.current = <<>>]>>
    /\ pc' = "split_returned"
    /\ UNCHANGED <<code, cfg, call>>

NextSplit == SplitEnter \/ SplitBody \/ SplitReturn

\* The interpreter keeps running the loop: a step that can be taken is taken.
SpecSplit == InitSplit /\ [][NextSplit]_vars /\ WF_vars(NextSplit)

----------------------------------------------------------------------------
\* C14: the tokenizer terminates on every finite code block and returns a
\* finite token list, also when an if, for or while keyword at a word boundary
\* is followed by no "(" in the rest of the block.  (A run the model follows no
\* further because its token list reached MaxTokens is not counted against
\* the claim.)
C14_SplitTerminates ==
    <>(pc = "split_returned" \/ Len(top.lines) >= MaxTokens)

----------------------------------------------------------------------------
\* The length of the keyword whose branch the loop body takes at index i of
\* code_block; 0 when it takes the brace, semicolon or plain-character branch.
keyword_len(code_block, i) ==
    IF ~boundary(code_block, i) THEN 0
    ELSE IF Slice(code_block, i, i + 2) = kw_if THEN 2
    ELSE IF Slice(code_block, i, i + 3) = kw_for THEN 3
    ELSE IF Slice(code_block, i, i + 5) = kw_while THEN 5
    ELSE IF Slice(code_block, i, i + 2) = kw_do THEN 2
    ELSE IF Slice(code_block, i, i + 4) = kw_else THEN 4
    ELSE 0

\* The n characters at index i of code_block stand as a whole word: no
\* character of an identifier comes before or behind them.
whole_word(code_block, i, n) ==
    /\ i = 0 \/ At(code_block, i - 1) \notin WordChar
    /\ i + n >= Len(code_block) \/ At(code_block, i + n) \notin WordChar

\* C15: the tokenizer emits a header token or a bare keyword token for if, for,
\* while, do and else only where the keyword stands as a whole word; it does
\* not split an identifier that contains the keyword or begins with it.
C15_WholeWordKeywords ==
    [][(/\ pc = "split_body"
        /\ keyword_len(code, top.i) > 0
        /\ Len(stack'[1].lines) > Len(flush_current(top)))
       => whole_word(code, top.i, keyword_len(code, top.i))]_vars

----------------------------------------------------------------------------
\* Every edge of graph c joins two nodes of c.
edges_closed(c) ==
    \A k \in 1 .. Len(c.edges) :
        is_node(c, c.edges[k].source) /\ is_node(c, c.edges[k].target)

\* The ids reached from the ids in S by following the edges of c.
RECURSIVE reach(_, _)
reach(c, S) ==
    LET T == S \cup {c.edges[k].target :
                        k \in {j \in 1 .. Len(c.edges) : c.edges[j].source \in S}}
    IN  IF T = S THEN S ELSE reach(c, T)

\* parse_cpp_code finds a function signature in its text.
signature_matched ==
    search_function(remove_block_comments(remove_line_comments(code))).matched

\* C16: in every graph parse_cpp_code returns, the source and the target of
\* every edge are ids of nodes of the graph and every node is reached from the
\* START node along the edges; when a function signature was matched, the END
\* node is the node created last and has no outgoing edge.
C16_ReturnedGraph ==
    pc = "returned"
        => /\ edges_closed(cfg)
           /\ ids_in_order(cfg)
           /\ cfg.nodes # <<>>
           /\ node(cfg, 0).type = "start"
           /\ reach(cfg, {0}) = 0 .. Len(cfg.nodes) - 1
           /\ signature_matched
                  => LET end == Len(cfg.nodes) - 1
                     IN  /\ node(cfg, end).type = "end"
                         /\ node(cfg, end).content = txt_END
                         /\ \A n \in 0 .. end - 1 : node(cfg, n).type # "end"
                         /\ \A k \in 1 .. Len(cfg.edges) : cfg.edges[k].source # end
                         /\ in_count(cfg, end) = 1

\* C16's case: parse_cpp_code has returned the graph of a function that holds
\* a loop and a branch.
C16_Witness ==
    /\ pc = "returned"
    /\ signature_matched
    /\ Len(cfg.nodes) >= 10
    /\ \E n \in 0 .. Len(cfg.nodes) - 1 : node(cfg, n).type = "loop_condition"
    /\ \E n \in 0 .. Len(cfg.nodes) - 1 : node(cfg, n).type = "condition"
    /\ node(cfg, Len(cfg.nodes) - 1).type = "end"
    /\ reach(cfg, {0}) = 0 .. Len(cfg.nodes) - 1

====
